---- MODULE Spec2Model ----
(***************************************************************************)
(* State-machine model of the real-time streaming pipeline:                *)
(*   - the Session Broadcast Hub   (websocket-server: index.ts,            *)
(*                                  session-manager.ts)                    *)
(*   - the Resilient Streaming Client (docker-wrapper: WebSocketClient)    *)
(*   - the Subprocess Supervisor   (docker-wrapper: ClaudeCodeRunner)      *)
(*   - the Agent                   (docker-wrapper: index.ts main)         *)
(* Each component has its own specification (SpecHub, SpecClient, SpecSup, *)
(* SpecAgent); the variables of the components a specification does not    *)
(* run stay at their initial values.  Every handler runs to completion in  *)
(* one step, as a Node.js event-loop callback does.                        *)
(***************************************************************************)
EXTENDS Integers, Sequences, FiniteSets, TLC

(***************************************************************************)
(* Bounds of the model.                                                    *)
(***************************************************************************)
MaxSock == 2
MaxFailing == 1
maxRetries == 2
reconnectInterval == 1
MaxSend == 2
MaxBeats == 1
MaxConnects == 2
timeoutMs == 2000
TickMs == 1000
MaxKills == 2
MaxText == 3
MaxParse == 2

(***************************************************************************)
(* Values.  The empty string stands for every falsy JavaScript value       *)
(* (undefined, null, "", a missing query parameter or JSON field).         *)
(***************************************************************************)
Falsy == ""
Sock == 1..MaxSock
ContainerIDs == {"a", "b"}
AUTH_TOKEN == "default-token"
Tokens == {AUTH_TOKEN, "wrong", Falsy}
ClientTime == "t1"
ServerTime == "now"

MessageType == {"LOG", "ERROR", "STATUS", "HEARTBEAT", "COMPLETE"}

\* The frames a peer may put on the wire: text that is not JSON, or a JSON
\* object.  fmt is the byte-level layout of the text (JSON.parse forgets it,
\* JSON.stringify always writes the compact one).  The malformed frames are
\* a well-formed frame with one field missing or with a type outside
\* MessageType.
Garbage == [fmt |-> "garbage", type |-> Falsy, containerID |-> Falsy,
            timestamp |-> Falsy, data |-> Falsy]
Sample == [fmt |-> "compact", type |-> "LOG", containerID |-> "a",
           timestamp |-> ClientTime, data |-> "payload"]
WellFormed ==
    [fmt : {"compact"},
     type : {"LOG", "HEARTBEAT"},
     containerID : ContainerIDs,
     timestamp : {ClientTime},
     data : {"payload"}]
    \cup {[Sample EXCEPT !.fmt = "spaced"]}
Malformed ==
    {Garbage, [Sample EXCEPT !.type = "subscribe"],
     [Sample EXCEPT !.containerID = Falsy], [Sample EXCEPT !.data = Falsy]}
\* A frame with every field present and a known type, whose data has the
\* shape of another type: a LOG envelope carrying a StatusData object.
Mismatched == [Sample EXCEPT !.data = "StatusData:running"]
RawFrames == WellFormed \cup {Mismatched} \cup Malformed

NoMessage == [type |-> Falsy, containerID |-> Falsy, timestamp |-> Falsy,
              data |-> Falsy]

VARIABLES
    readyState,          \* per socket: NEW, OPEN, CLOSING, DEAD, CLOSED
    connections,         \* SessionManager.connections : containerID -> Set<WebSocket>
    connectionMetadata,  \* SessionManager.connectionMetadata : WebSocket -> containerID
    connectionInfo,      \* index.ts connectionInfo : WebSocket -> ConnectionInfo
    heartbeatInterval,   \* TRUE while the sweep timer is armed
    listening,           \* TRUE while the server accepts upgrade requests
    heard,               \* history: the open sockets accepted or heard from since the
                         \* last sweep
    last                 \* history: what the most recent handler did

hubVars == <<readyState, connections, connectionMetadata, connectionInfo,
             heartbeatInterval, listening, heard, last>>

VARIABLES
    clientWs,            \* WebSocketClient.ws: "null", or the readyState of the socket
    connected,           \* WebSocketClient.connected
    connectAttempts,     \* WebSocketClient.connectAttempts
    reconnectTimer,      \* WebSocketClient.reconnectTimer: pending or not, and its delay
    heartbeatTimer,      \* TRUE while WebSocketClient.heartbeatTimer is armed
    messageQueue,        \* WebSocketClient.messageQueue
    wire,                \* history: the envelopes written to a transport, in order
    sent,                \* history: the number of envelopes the owner has sent
    beats,               \* history: the number of heartbeat timer callbacks
    connects,            \* history: the number of connect() calls of the owner
    everOpened,          \* history: some connection attempt has succeeded
    failedAttempts,      \* history: the attempts that failed, while none had succeeded
    failedEmitted,       \* history: the number of 'failed' events emitted
    lastFlush,           \* history: the queue the last 'open' handler found, and what it wrote
    orphans,             \* the sockets the client dropped without closing them that
                         \* are still connecting or open
    promise              \* the promise the owner's last connect() returned: none,
                         \* pending, resolved, rejected, or abandoned: pending
                         \* while the socket whose 'open' handler holds its
                         \* resolve() has closed

clientVars == <<clientWs, connected, connectAttempts, reconnectTimer,
                heartbeatTimer, messageQueue, wire, sent, beats, connects,
                everOpened, failedAttempts, failedEmitted, lastFlush, orphans,
                promise>>

VARIABLES
    pc,                  \* where run() is: preparing, waiting, cleanup, returned
    now,                 \* milliseconds since the timeout timer was armed
    claude,              \* claudeProcess: none, spawnfail, running, exited, closed, failed
    claudeExit,          \* how claudeProcess ended: exit code or signal, and who sent it
    pendingTerm,         \* who sent claudeProcess a SIGTERM it has not acted on
    helpers,             \* catProcess and pipeProcess: none, spawnfail, running,
                         \* signalled, exited, failed
    timeoutId,           \* TRUE while the timeout timer is armed
    graceTimer,          \* the SIGKILL timer: armed or not, and its deadline
    resolved,            \* the flag of the same name in run()
    exitCode,            \* the value the promise was resolved with
    result,              \* the ClaudeCodeResult run() returned
    atReturn,            \* history: the processes at the moment run() returned
    signals              \* history: the signals run() and kill() have sent to
                         \* claudeProcess, and the calls of kill()

supVars == <<pc, now, claude, claudeExit, pendingTerm, helpers, timeoutId,
             graceTimer, resolved, exitCode, result, atReturn, signals>>

VARIABLES
    agentPc,             \* where main() is: main, connecting, validating, cloning,
                         \* running, exited
    agentSent,           \* history: the STATUS, ERROR and COMPLETE envelopes (and
                         \* the progress LOGs) the agent handed to the LogStreamer
    agentEnd,            \* history: how the task ended
    agentExit            \* whether the process has exited, and its exit code

agentVars == <<agentPc, agentSent, agentEnd, agentExit>>

VARIABLES
    runner,              \* the class whose run() spawned the child process:
                         \* "none", "ClaudeCodeRunner" or "ProcessRunner"
    stdout,              \* everything the child process writes to its standard
                         \* output, a sequence of characters
    readPos,             \* how many of these characters the 'data' events have
                         \* delivered
    outputBuffer,        \* ProcessRunner.outputBuffer.stdout
    output,              \* history: the lines of the 'output' events, in order
    logs,                \* history: the lines LogStreamer.streamOutput handed to
                         \* the client as LOG envelopes, in order
    exited               \* the 'exit' handler of the child process has run

outVars == <<runner, stdout, readPos, outputBuffer, output, logs, exited>>

VARIABLES
    linkPc,              \* where the handshake of one client with the hub is:
                         \* new, constructed, requested, refused, accepted,
                         \* connected
    serverUrl,           \* WebSocketClient.serverUrl: the token and containerID
                         \* query parameters of the configured URL
    configuredID,        \* WebSocketClient.containerID
    upgradeUrl,          \* the query parameters of the upgrade request
    boundAs,             \* the session the hub added the connection to (Falsy:
                         \* none)
    stamped              \* history: the envelopes the connected client has sent

linkVars == <<linkPc, serverUrl, configuredID, upgradeUrl, boundAs, stamped>>

VARIABLES
    buffer,              \* OutputParser.buffer
    lineCount,           \* OutputParser.lineCount
    returned,            \* history: the entries parse() and flush() have
                         \* returned, in order
    parseCalls           \* how many times parse() has been called

parserVars == <<buffer, lineCount, returned, parseCalls>>

vars == <<hubVars, clientVars, supVars, agentVars, outVars, linkVars,
          parserVars>>

(***************************************************************************)
(* JavaScript Map helpers.                                                 *)
(***************************************************************************)
MapSet(f, k, v) == [x \in DOMAIN f \cup {k} |-> IF x = k THEN v ELSE f[x]]
MapDelete(f, k) == [x \in DOMAIN f \ {k} |-> f[x]]
EmptyMap == [x \in {} |-> {}]

(***************************************************************************)
(* SessionManager (session-manager.ts).  sm is the pair of its two maps.   *)
(***************************************************************************)
SM(c, m) == [connections |-> c, connectionMetadata |-> m]

addConnection(sm, containerID, ws) ==
    LET cur == IF containerID \in DOMAIN sm.connections
               THEN sm.connections[containerID] ELSE {}
    IN SM(MapSet(sm.connections, containerID, cur \cup {ws}),
          MapSet(sm.connectionMetadata, ws, containerID))

\* A removeConnection that leaves the entry of an emptied session in place.
removeConnectionKeepingEntry(sm, ws) ==
    IF ws \notin DOMAIN sm.connectionMetadata THEN sm
    ELSE LET containerID == sm.connectionMetadata[ws]
             conns == IF containerID \in DOMAIN sm.connections
                      THEN MapSet(sm.connections, containerID,
                                  sm.connections[containerID] \ {ws})
                      ELSE sm.connections
         IN SM(conns, MapDelete(sm.connectionMetadata, ws))

removeConnection(sm, ws) ==
    IF ws \notin DOMAIN sm.connectionMetadata THEN sm
    ELSE LET containerID == sm.connectionMetadata[ws]
             conns == IF containerID \in DOMAIN sm.connections
                      THEN LET rest == sm.connections[containerID] \ {ws}
                           IN IF rest = {}
                              THEN MapDelete(sm.connections, containerID)
                              ELSE MapSet(sm.connections, containerID, rest)
                      ELSE sm.connections
         IN SM(conns, MapDelete(sm.connectionMetadata, ws))

RECURSIVE removeAll(_, _)
removeAll(sm, S) ==
    IF S = {} THEN sm
    ELSE LET ws == CHOOSE x \in S : TRUE
         IN removeAll(removeConnection(sm, ws), S \ {ws})

Elements(seq) == {seq[i] : i \in 1..Len(seq)}

\* A loop that removes a dead member while it iterates, and so passes over
\* the member that follows it.
RECURSIVE broadcastLoopSkipping(_, _, _, _)
broadcastLoopSkipping(todo, rs, failing, acc) ==
    IF todo = {} THEN acc
    ELSE LET ws == CHOOSE x \in todo : TRUE
             rest == todo \ {ws}
         IN IF rs[ws] = "OPEN" /\ ws \notin failing
            THEN broadcastLoopSkipping(rest, rs, failing,
                     [acc EXCEPT !.written = Append(@, ws)])
            ELSE broadcastLoopSkipping(
                     IF rest = {} THEN rest
                     ELSE rest \ {CHOOSE x \in rest : TRUE},
                     rs, failing,
                     [acc EXCEPT !.deadConnections = Append(@, ws)])

\* The for..of loop of broadcast over the members todo: each member is
\* visited once; an OPEN member whose ws.send does not throw is written to,
\* every other member is pushed onto deadConnections.
RECURSIVE broadcastLoop(_, _, _, _)
broadcastLoop(todo, rs, failing, acc) ==
    IF todo = {} THEN acc
    ELSE LET ws == CHOOSE x \in todo : TRUE
         IN IF rs[ws] = "OPEN" /\ ws \notin failing
            THEN broadcastLoop(todo \ {ws}, rs, failing,
                     [acc EXCEPT !.written = Append(@, ws)])
            ELSE broadcastLoop(todo \ {ws}, rs, failing,
                     [acc EXCEPT !.deadConnections = Append(@, ws)])

\* broadcast(containerID, message): failing is the set of sockets whose
\* ws.send throws; rs is the readyState of every socket.  The result holds
\* the maps afterwards, the sockets the message was written to and the
\* writes in the order they were made.
broadcast(sm, rs, containerID, failing) ==
    IF containerID \notin DOMAIN sm.connections
       \/ sm.connections[containerID] = {}
    THEN [sm |-> sm, sentTo |-> {}, written |-> <<>>]
    ELSE LET members == sm.connections[containerID]
             loop == broadcastLoop(members, rs, failing,
                         [written |-> <<>>, deadConnections |-> <<>>])
         IN [sm |-> removeAll(sm, Elements(loop.deadConnections)),
             sentTo |-> Elements(loop.written), written |-> loop.written]

getActiveContainers(sm) ==
    {c \in DOMAIN sm.connections : sm.connections[c] # {}}

closeContainerMaps(sm, containerID) ==
    IF containerID \notin DOMAIN sm.connections THEN sm
    ELSE SM(MapDelete(sm.connections, containerID), sm.connectionMetadata)

Members(conns) == UNION {conns[c] : c \in DOMAIN conns}

(***************************************************************************)
(* index.ts helpers.                                                       *)
(***************************************************************************)
\* An authenticateConnection that only asks for some token.
authenticateAnyToken(token) == token # Falsy

authenticateConnection(token) == ~(token = Falsy \/ token # AUTH_TOKEN)

\* A parseMessage that does not check the type against MessageType.
parseMessageAnyType(raw) ==
    IF raw.fmt = "garbage" THEN NoMessage
    ELSE IF raw.type = Falsy \/ raw.containerID = Falsy
            \/ raw.timestamp = Falsy \/ raw.data = Falsy THEN NoMessage
    ELSE [type |-> raw.type, containerID |-> raw.containerID,
          timestamp |-> raw.timestamp, data |-> raw.data]

\* parseMessage: NoMessage stands for null.  The parsed object keeps the
\* four fields; the byte layout of the frame is gone.
parseMessage(raw) ==
    IF raw.fmt = "garbage" THEN NoMessage
    ELSE IF raw.type = Falsy \/ raw.containerID = Falsy
            \/ raw.timestamp = Falsy \/ raw.data = Falsy THEN NoMessage
    ELSE IF raw.type \notin MessageType THEN NoMessage
    ELSE [type |-> raw.type, containerID |-> raw.containerID,
          timestamp |-> raw.timestamp, data |-> raw.data]

\* The key under which handleLogMessage / handleStatusMessage /
\* handleErrorMessage / handleCompleteMessage hand the message to broadcast.
broadcastTarget(ws, message) == message.containerID

welcomeMessage(containerID) ==
    [type |-> "STATUS", containerID |-> containerID, timestamp |-> ServerTime,
     data |-> "StatusData:running"]

heartbeatMessage(containerID) ==
    [type |-> "HEARTBEAT", containerID |-> containerID, timestamp |-> ServerTime,
     data |-> "HeartbeatData"]

Info(alive, containerID) ==
    [isAlive |-> alive, containerID |-> containerID, authenticated |-> TRUE]

\* The record of the most recent handler (NoLast for a handler that neither
\* answers a handshake nor writes to a socket): the token presented, the
\* frame written and the sockets it was written to (for a broadcast to one
\* session also the writes, in order), the sockets whose write threw, and what the handler saw before it acted: the members of the
\* sender's session (of every session, for a sweep), the sockets accepted or
\* heard from since the last sweep; and, for a sweep, the socket whose
\* HEARTBEAT envelope was the handler that ran just before it (0 if that
\* handler was another one) and the sockets the sweep evicted.
NoLast == [op |-> "none", ws |-> 0, token |-> Falsy, message |-> NoMessage,
           sentTo |-> {}, members |-> {}, failing |-> {}, heard |-> {},
           written |-> <<>>, beat |-> 0, evicted |-> {}]

(***************************************************************************)
(* Hub: initial state.                                                     *)
(***************************************************************************)
HubInit ==
    /\ readyState = [s \in Sock |-> "NEW"]
    /\ connections = EmptyMap
    /\ connectionMetadata = EmptyMap
    /\ connectionInfo = EmptyMap
    /\ heartbeatInterval = TRUE
    /\ listening = TRUE
    /\ heard = {}
    /\ last = NoLast

\* Sockets are used in the order of their numbers (their identities carry no
\* meaning).
NextNew(s) == readyState[s] = "NEW" /\ \A t \in Sock : t < s => readyState[t] # "NEW"

(***************************************************************************)
(* verifyClient refuses the upgrade: the server answers 401 and drops the  *)
(* TCP socket; no WebSocket object, no 'connection' event, no listeners.   *)
(***************************************************************************)
Reject(token) ==
    /\ listening
    /\ ~authenticateConnection(token)
    /\ last' = [NoLast EXCEPT !.op = "reject", !.token = token]
    /\ UNCHANGED <<readyState, connections, connectionMetadata, connectionInfo,
                   heartbeatInterval, listening, heard>>
    /\ UNCHANGED <<clientVars, supVars, agentVars, outVars, linkVars, parserVars>>

(***************************************************************************)
(* wss.on('connection'): the upgrade was accepted.                         *)
(***************************************************************************)
Accept(s, token, containerID) ==
    /\ listening
    /\ NextNew(s)
    /\ authenticateConnection(token)
    /\ readyState' = [readyState EXCEPT ![s] = "OPEN"]
    /\ connectionInfo' = MapSet(connectionInfo, s, Info(TRUE, containerID))
    /\ IF containerID # Falsy
       THEN LET sm == addConnection(SM(connections, connectionMetadata),
                                    containerID, s)
            IN /\ connections' = sm.connections
               /\ connectionMetadata' = sm.connectionMetadata
               /\ last' = [NoLast EXCEPT !.op = "accept", !.ws = s,
                               !.token = token,
                               !.message = welcomeMessage(containerID),
                               !.sentTo = {s}]
       ELSE /\ UNCHANGED <<connections, connectionMetadata>>
            /\ last' = [NoLast EXCEPT !.op = "accept", !.ws = s,
                            !.token = token]
    /\ heard' = heard \cup {s}
    /\ UNCHANGED <<heartbeatInterval, listening>>
    /\ UNCHANGED <<clientVars, supVars, agentVars, outVars, linkVars, parserVars>>

(***************************************************************************)
(* ws.on('message'): parseMessage, then handleMessage.  failing is the set *)
(* of sockets whose ws.send throws during the broadcast.                   *)
(***************************************************************************)
\* A handler that relays the echo to the open members of the sender's
\* session instead of answering the sender alone.
handleHeartbeatRelayed(s, message) ==
    /\ connectionInfo' = MapSet(connectionInfo, s,
                                Info(TRUE, connectionInfo[s].containerID))
    /\ LET session == connectionInfo[s].containerID
           to == IF session \in DOMAIN connections
                 THEN {t \in connections[session] : readyState[t] = "OPEN"}
                 ELSE {}
       IN last' = [NoLast EXCEPT !.op = "heartbeat", !.ws = s,
                       !.message = heartbeatMessage(message.containerID),
                       !.sentTo = to]
    /\ UNCHANGED <<connections, connectionMetadata>>

handleHeartbeatMessage(s, message) ==
    /\ connectionInfo' = MapSet(connectionInfo, s,
                                Info(TRUE, connectionInfo[s].containerID))
    /\ LET to == IF readyState[s] = "OPEN" THEN {s} ELSE {}
       IN last' = [NoLast EXCEPT !.op = "heartbeat", !.ws = s,
                       !.message = heartbeatMessage(message.containerID),
                       !.sentTo = to]
    /\ UNCHANGED <<connections, connectionMetadata>>

OpenMembers(containerID) ==
    IF containerID \in DOMAIN connections
    THEN {t \in connections[containerID] : readyState[t] = "OPEN"} ELSE {}

\* The sets of sockets whose ws.send may throw during one handler: none, or
\* up to MaxFailing of the sockets the handler writes to.
Failing(S) == {F \in SUBSET S : Cardinality(F) <= MaxFailing}

handleBroadcastMessage(s, message) ==
    \E failing \in Failing(OpenMembers(broadcastTarget(s, message))) :
      LET b == broadcast(SM(connections, connectionMetadata), readyState,
                         broadcastTarget(s, message), failing)
          session == connectionInfo[s].containerID
      IN /\ connections' = b.sm.connections
         /\ connectionMetadata' = b.sm.connectionMetadata
         /\ last' = [NoLast EXCEPT !.op = "broadcast", !.ws = s,
                         !.message = message, !.sentTo = b.sentTo,
                         !.written = b.written,
                         !.members = IF session \in DOMAIN connections
                                     THEN connections[session] ELSE {},
                         !.failing = failing]
         /\ UNCHANGED connectionInfo

handleMessage(s, message) ==
    IF ~connectionInfo[s].authenticated
    THEN /\ last' = [NoLast EXCEPT !.op = "dropped", !.ws = s]
         /\ UNCHANGED <<connections, connectionMetadata, connectionInfo>>
    ELSE IF message.type = "HEARTBEAT"
    THEN handleHeartbeatMessage(s, message)
    ELSE handleBroadcastMessage(s, message)

OnMessage(s, raw) ==
    /\ readyState[s] \in {"OPEN", "CLOSING"}
    /\ s \in DOMAIN connectionInfo
    /\ LET message == parseMessage(raw)
       IN IF message = NoMessage
          THEN /\ last' = [NoLast EXCEPT !.op = "dropped", !.ws = s]
               /\ UNCHANGED <<connections, connectionMetadata, connectionInfo>>
          ELSE handleMessage(s, message)
    /\ heard' = IF readyState[s] = "OPEN" THEN heard \cup {s} ELSE heard
    /\ UNCHANGED <<readyState, heartbeatInterval, listening>>
    /\ UNCHANGED <<clientVars, supVars, agentVars, outVars, linkVars, parserVars>>

(***************************************************************************)
(* ws.on('pong').                                                          *)
(***************************************************************************)
OnPong(s) ==
    /\ readyState[s] = "OPEN"
    /\ s \in DOMAIN connectionInfo
    /\ connectionInfo' = MapSet(connectionInfo, s,
                                Info(TRUE, connectionInfo[s].containerID))
    /\ heard' = heard \cup {s}
    /\ last' = NoLast
    /\ UNCHANGED <<readyState, connections, connectionMetadata,
                   heartbeatInterval, listening>>
    /\ UNCHANGED <<clientVars, supVars, agentVars, outVars, linkVars, parserVars>>

(***************************************************************************)
(* The transport of a socket goes down (peer close, reset): readyState     *)
(* leaves OPEN at once, the 'error' / 'close' events are dispatched later. *)
(***************************************************************************)
TransportDown(s) ==
    /\ readyState[s] \in {"OPEN", "CLOSING"}
    /\ readyState' = [readyState EXCEPT ![s] = "DEAD"]
    /\ heard' = heard \ {s}
    /\ last' = NoLast
    /\ UNCHANGED <<connections, connectionMetadata, connectionInfo,
                   heartbeatInterval, listening>>
    /\ UNCHANGED <<clientVars, supVars, agentVars, outVars, linkVars, parserVars>>

\* ws.on('error') of addConnection (the listener of index.ts only logs).
OnError(s) ==
    /\ readyState[s] = "DEAD"
    /\ s \in DOMAIN connectionMetadata
    /\ LET sm == removeConnection(SM(connections, connectionMetadata), s)
       IN /\ connections' = sm.connections
          /\ connectionMetadata' = sm.connectionMetadata
    /\ last' = NoLast
    /\ UNCHANGED <<readyState, connectionInfo, heartbeatInterval, listening,
                   heard>>
    /\ UNCHANGED <<clientVars, supVars, agentVars, outVars, linkVars, parserVars>>

\* ws.on('close') of addConnection, then ws.on('close') of index.ts.
OnClose(s) ==
    /\ readyState[s] \in {"CLOSING", "DEAD"}
    /\ readyState' = [readyState EXCEPT ![s] = "CLOSED"]
    /\ LET sm == removeConnection(SM(connections, connectionMetadata), s)
       IN /\ connections' = sm.connections
          /\ connectionMetadata' = sm.connectionMetadata
    /\ connectionInfo' = MapDelete(connectionInfo, s)
    /\ heard' = heard \ {s}
    /\ last' = NoLast
    /\ UNCHANGED <<heartbeatInterval, listening>>
    /\ UNCHANGED <<clientVars, supVars, agentVars, outVars, linkVars, parserVars>>

(***************************************************************************)
(* The heartbeatInterval callback: sendHeartbeatPing(), then               *)
(* cleanupDeadConnections().                                               *)
(***************************************************************************)
RECURSIVE sendHeartbeatPing(_, _, _, _, _)
sendHeartbeatPing(sm, rs, todo, failing, pinged) ==
    IF todo = {} THEN [sm |-> sm, pinged |-> pinged]
    ELSE LET containerID == CHOOSE c \in todo : TRUE
             b == broadcast(sm, rs, containerID, failing)
         IN sendHeartbeatPing(b.sm, rs, todo \ {containerID}, failing,
                              pinged \cup b.sentTo)

\* The sockets cleanupDeadConnections removes: getContainerSessions() copies
\* the member sets first, so the removals do not disturb the iteration.
deadConnections(sm, info) ==
    {ws \in Members(sm.connections) :
        ws \notin DOMAIN info \/ ~info[ws].isAlive}

cleanupDeadConnections(sm, info) ==
    LET dead == deadConnections(sm, info)
        survivors == Members(sm.connections) \ dead
    IN [sm |-> removeAll(sm, dead),
        info |-> [ws \in DOMAIN info |->
                    IF ws \in survivors
                    THEN Info(FALSE, info[ws].containerID) ELSE info[ws]],
        evicted |-> dead]

Sweep ==
    /\ heartbeatInterval
    /\ \E failing \in Failing({t \in Members(connections) : readyState[t] = "OPEN"}) :
       LET sm0 == SM(connections, connectionMetadata)
           p == sendHeartbeatPing(sm0, readyState, getActiveContainers(sm0),
                                  failing, {})
           c == cleanupDeadConnections(p.sm, connectionInfo)
       IN /\ connections' = c.sm.connections
          /\ connectionMetadata' = c.sm.connectionMetadata
          /\ connectionInfo' = c.info
          /\ last' = [NoLast EXCEPT !.op = "sweep", !.sentTo = p.pinged,
                          !.members = Members(connections),
                          !.failing = failing,
                          !.heard = heard,
                          !.beat = IF last.op = "heartbeat" THEN last.ws ELSE 0,
                          !.evicted = c.evicted]
    /\ heard' = {}
    /\ UNCHANGED <<readyState, heartbeatInterval, listening>>
    /\ UNCHANGED <<clientVars, supVars, agentVars, outVars, linkVars, parserVars>>

(***************************************************************************)
(* SessionManager.closeContainer and SessionManager.shutdown close the     *)
(* OPEN members: ws.close() starts the closing handshake.                  *)
(***************************************************************************)
closeAll(rs, S) ==
    [s \in Sock |-> IF s \in S /\ rs[s] = "OPEN" THEN "CLOSING" ELSE rs[s]]

CloseContainer(containerID) ==
    /\ containerID \in DOMAIN connections
    /\ readyState' = closeAll(readyState, connections[containerID])
    /\ LET sm == closeContainerMaps(SM(connections, connectionMetadata),
                                    containerID)
       IN /\ connections' = sm.connections
          /\ connectionMetadata' = sm.connectionMetadata
    /\ heard' = heard \ connections[containerID]
    /\ last' = NoLast
    /\ UNCHANGED <<connectionInfo, heartbeatInterval, listening>>
    /\ UNCHANGED <<clientVars, supVars, agentVars, outVars, linkVars, parserVars>>

shutdown(sm) == SM(EmptyMap, EmptyMap)

\* gracefulShutdown(signal): clearInterval, wss.close, sessionManager.shutdown,
\* server.close.
GracefulShutdown ==
    /\ heartbeatInterval' = FALSE
    /\ listening' = FALSE
    /\ readyState' = closeAll(readyState, Members(connections))
    /\ LET sm == shutdown(SM(connections, connectionMetadata))
       IN /\ connections' = sm.connections
          /\ connectionMetadata' = sm.connectionMetadata
    /\ heard' = heard \ Members(connections)
    /\ last' = NoLast
    /\ UNCHANGED connectionInfo
    /\ UNCHANGED <<clientVars, supVars, agentVars, outVars, linkVars, parserVars>>

NextHub ==
    \/ \E token \in Tokens : Reject(token)
    \/ \E s \in Sock, token \in Tokens, c \in ContainerIDs \cup {Falsy} :
          Accept(s, token, c)
    \/ \E s \in Sock, raw \in RawFrames : OnMessage(s, raw)
    \/ \E s \in Sock : OnPong(s)
    \/ \E s \in Sock : TransportDown(s)
    \/ \E s \in Sock : OnError(s)
    \/ \E s \in Sock : OnClose(s)
    \/ Sweep
    \/ \E c \in ContainerIDs : CloseContainer(c)
    \/ GracefulShutdown

(***************************************************************************)
(* WebSocketClient (docker-wrapper/src/websocket-client.ts).               *)
(***************************************************************************)

\* The envelopes of the client: the n-th envelope of the owner, and the
\* heartbeat the heartbeat timer sends.
Envelope(n) == [type |-> "LOG", seq |-> n]
HeartbeatEnvelope == [type |-> "HEARTBEAT", seq |-> 0]

NoTimer == [pending |-> FALSE, delay |-> 0]
NoFlush == [queue |-> <<>>, written |-> <<>>]

ClientInit ==
    /\ clientWs = "null"
    /\ connected = FALSE
    /\ connectAttempts = 0
    /\ reconnectTimer = NoTimer
    /\ heartbeatTimer = FALSE
    /\ messageQueue = <<>>
    /\ wire = <<>>
    /\ sent = 0
    /\ beats = 0
    /\ connects = 0
    /\ everOpened = FALSE
    /\ failedAttempts = 0
    /\ failedEmitted = 0
    /\ lastFlush = NoFlush
    /\ orphans = 0
    /\ promise = "none"

\* The part of the client sendMessage reads and writes.
Out(c, w, q, o) == [connected |-> c, ws |-> w, messageQueue |-> q, wire |-> o]

\* A sendMessage that discards the message when the client is not connected.
sendMessageDropping(c, message, throws) ==
    IF ~c.connected \/ c.ws = "null" \/ c.ws # "OPEN"
    THEN c
    ELSE IF throws
    THEN [c EXCEPT !.messageQueue = Append(@, message)]
    ELSE [c EXCEPT !.wire = Append(@, message)]

\* sendMessage(message): throws tells whether JSON.stringify / ws.send throws.
sendMessage(c, message, throws) ==
    IF ~c.connected \/ c.ws = "null" \/ c.ws # "OPEN"
    THEN [c EXCEPT !.messageQueue = Append(@, message)]
    ELSE IF throws
    THEN [c EXCEPT !.messageQueue = Append(@, message)]
    ELSE [c EXCEPT !.wire = Append(@, message)]

\* The loop of flushMessageQueue over the copy of the queue; failing holds
\* the positions of the copy whose write throws.
RECURSIVE sendAll(_, _, _, _)
sendAll(c, queue, i, failing) ==
    IF i > Len(queue) THEN c
    ELSE sendAll(sendMessage(c, queue[i], i \in failing), queue, i + 1, failing)

flushMessageQueue(c, failing) ==
    IF Len(c.messageQueue) > 0 /\ c.connected /\ c.ws # "null"
    THEN sendAll([c EXCEPT !.messageQueue = <<>>], c.messageQueue, 1, failing)
    ELSE c

\* reconnect(): the test that ends the retries, and the delay of the timer.
\* A retriesExhausted that gives up one attempt earlier.
retriesExhaustedEarly(attempts) == attempts + 1 >= maxRetries

\* A reconnect() that always gives up.
retriesAlwaysExhausted(attempts) == attempts >= 0

retriesExhausted(attempts) == attempts >= maxRetries

\* A delay whose exponent is one too high.
backoffDelayAhead(attempts) == reconnectInterval * 2 ^ (attempts + 1)

backoffDelay(attempts) == reconnectInterval * 2 ^ attempts

\* The sockets left behind when this.ws is dropped: disconnect() removes the
\* listeners of the socket and closes it only if it is OPEN, so a socket
\* that is still CONNECTING goes on connecting, unreferenced.
dropped(ws, n) == IF ws = "CONNECTING" THEN n + 1 ELSE n

\* disconnect(), which connect() calls first when this.ws is set.
disconnect ==
    /\ connected' = FALSE
    /\ heartbeatTimer' = FALSE
    /\ reconnectTimer' = NoTimer
    /\ orphans' = dropped(clientWs, orphans)
    /\ clientWs' = "null"

\* connect(): drops the socket it holds, then opens a new one.  timer is
\* the reconnect timer at the call.
connect(timer) ==
    /\ connected' = (IF clientWs # "null" THEN FALSE ELSE connected)
    /\ heartbeatTimer' = (IF clientWs # "null" THEN FALSE ELSE heartbeatTimer)
    /\ reconnectTimer' = (IF clientWs # "null" THEN NoTimer ELSE timer)
    /\ orphans' = dropped(clientWs, orphans)
    /\ clientWs' = "CONNECTING"

\* An event settles the promise if it is still pending.
settle(p, outcome) == IF p = "pending" THEN outcome ELSE p

\* The owner calls connect().
Connect ==
    /\ connects < MaxConnects
    /\ connects' = connects + 1
    /\ connect(reconnectTimer)
    /\ UNCHANGED <<connectAttempts, messageQueue, wire, sent, beats, everOpened,
                   failedAttempts, failedEmitted, lastFlush>>
    /\ promise' = "pending"
    /\ UNCHANGED <<hubVars, supVars, agentVars, outVars, linkVars, parserVars>>

\* The reconnect timer fires: connect().
ReconnectTimerFires ==
    /\ reconnectTimer.pending
    /\ connect(NoTimer)
    /\ UNCHANGED <<connectAttempts, messageQueue, wire, sent, beats, connects,
                   everOpened, failedAttempts, failedEmitted, lastFlush>>
    /\ UNCHANGED promise
    /\ UNCHANGED <<hubVars, supVars, agentVars, outVars, linkVars, parserVars>>

\* ws.on('open').
ClientOnOpen ==
    /\ clientWs = "CONNECTING"
    /\ clientWs' = "OPEN"
    /\ connected' = TRUE
    /\ connectAttempts' = 0
    /\ heartbeatTimer' = TRUE
    /\ everOpened' = TRUE
    /\ \E failing \in Failing(1..Len(messageQueue)) :
         LET c == flushMessageQueue(Out(TRUE, "OPEN", messageQueue, wire), failing)
         IN /\ messageQueue' = c.messageQueue
            /\ wire' = c.wire
            /\ lastFlush' = [queue |-> messageQueue,
                             written |-> SubSeq(c.wire, Len(wire) + 1, Len(c.wire))]
    /\ UNCHANGED <<reconnectTimer, sent, beats, connects, failedAttempts,
                   failedEmitted, orphans>>
    /\ promise' = settle(promise, "resolved")
    /\ UNCHANGED <<hubVars, supVars, agentVars, outVars, linkVars, parserVars>>

\* The transport of the client's socket goes down (the handshake fails, the
\* peer closes): readyState leaves CONNECTING / OPEN, 'close' comes later.
ClientTransportDown ==
    /\ clientWs \in {"CONNECTING", "OPEN"}
    /\ clientWs' = "CLOSING"
    /\ UNCHANGED <<connected, connectAttempts, reconnectTimer, heartbeatTimer,
                   messageQueue, wire, sent, beats, connects, everOpened,
                   failedAttempts, failedEmitted, lastFlush, orphans>>
    /\ UNCHANGED promise
    /\ UNCHANGED <<hubVars, supVars, agentVars, outVars, linkVars, parserVars>>

\* ws.on('close'): stopHeartbeat(), then reconnect().
ClientOnClose ==
    /\ clientWs = "CLOSING"
    /\ clientWs' = "CLOSED"
    /\ connected' = FALSE
    /\ heartbeatTimer' = FALSE
    /\ failedAttempts' = IF everOpened THEN failedAttempts ELSE failedAttempts + 1
    /\ IF retriesExhausted(connectAttempts)
       THEN /\ failedEmitted' = failedEmitted + 1
            /\ reconnectTimer' = NoTimer
            /\ UNCHANGED connectAttempts
       ELSE /\ reconnectTimer' = [pending |-> TRUE,
                                  delay |-> backoffDelay(connectAttempts)]
            /\ connectAttempts' = connectAttempts + 1
            /\ UNCHANGED failedEmitted
    /\ UNCHANGED <<messageQueue, wire, sent, beats, connects, everOpened,
                   lastFlush, orphans>>
    /\ promise' = settle(promise, "abandoned")
    /\ UNCHANGED <<hubVars, supVars, agentVars, outVars, linkVars, parserVars>>

\* The owner sends an envelope (sendLog, sendStatus, sendError, sendComplete).
Send(throws) ==
    /\ sent < MaxSend
    /\ sent' = sent + 1
    /\ LET c == sendMessage(Out(connected, clientWs, messageQueue, wire),
                            Envelope(sent + 1), throws)
       IN /\ messageQueue' = c.messageQueue
          /\ wire' = c.wire
    /\ UNCHANGED <<clientWs, connected, connectAttempts, reconnectTimer,
                   heartbeatTimer, beats, connects, everOpened, failedAttempts,
                   failedEmitted, lastFlush, orphans>>
    /\ UNCHANGED promise
    /\ UNCHANGED <<hubVars, supVars, agentVars, outVars, linkVars, parserVars>>

\* The heartbeat timer fires: sendHeartbeat().
HeartbeatTimerFires(throws) ==
    /\ heartbeatTimer
    /\ beats < MaxBeats
    /\ beats' = beats + 1
    /\ LET c == sendMessage(Out(connected, clientWs, messageQueue, wire),
                            HeartbeatEnvelope, throws)
       IN /\ messageQueue' = c.messageQueue
          /\ wire' = c.wire
    /\ UNCHANGED <<clientWs, connected, connectAttempts, reconnectTimer,
                   heartbeatTimer, sent, connects, everOpened, failedAttempts,
                   failedEmitted, lastFlush, orphans>>
    /\ UNCHANGED promise
    /\ UNCHANGED <<hubVars, supVars, agentVars, outVars, linkVars, parserVars>>

\* The owner calls disconnect().
Disconnect ==
    /\ disconnect
    /\ UNCHANGED <<connectAttempts, messageQueue, wire, sent, beats, connects,
                   everOpened, failedAttempts, failedEmitted, lastFlush>>
    /\ UNCHANGED promise
    /\ UNCHANGED <<hubVars, supVars, agentVars, outVars, linkVars, parserVars>>

\* A dropped socket ends: its handshake fails, or the peer closes it.  It
\* has no listeners left, so the client does not notice.
OrphanEnds ==
    /\ orphans > 0
    /\ orphans' = orphans - 1
    /\ UNCHANGED <<clientWs, connected, connectAttempts, reconnectTimer,
                   heartbeatTimer, messageQueue, wire, sent, beats, connects,
                   everOpened, failedAttempts, failedEmitted, lastFlush>>
    /\ UNCHANGED promise
    /\ UNCHANGED <<hubVars, supVars, agentVars, outVars, linkVars, parserVars>>

NextClient ==
    \/ Connect
    \/ ReconnectTimerFires
    \/ ClientOnOpen
    \/ ClientTransportDown
    \/ ClientOnClose
    \/ \E throws \in BOOLEAN : Send(throws)
    \/ \E throws \in BOOLEAN : HeartbeatTimerFires(throws)
    \/ Disconnect
    \/ OrphanEnds

(***************************************************************************)
(* ClaudeCodeRunner.run (docker-wrapper/src/types.ts).                     *)
(***************************************************************************)
GraceMs == 5000
TimeoutExitCode == 124
ErrorExitCode == 1

Helpers == {"cat", "pipe"}

\* How a process can end: with an exit code, or killed by a signal (then
\* the code Node.js reports is null).  sender is who sent the signal: the
\* timeout path of run(), the 'error' handler of pipeProcess, or somebody
\* outside the supervisor.
Exited(code) == [hasCode |-> TRUE, code |-> code, signal |-> "none",
                 sender |-> "none"]
Killed(signal, sender) == [hasCode |-> FALSE, code |-> 0, signal |-> signal,
                           sender |-> sender]
NoExit == [hasCode |-> FALSE, code |-> 0, signal |-> "none", sender |-> "none"]
ExitCodes == {0, 1, 2}

NoGrace == [armed |-> FALSE, at |-> 0]
NoSignals == [termSent |-> FALSE, termAt |-> 0, killSent |-> FALSE,
              killAt |-> 0, timedOut |-> FALSE, runningAtDeadline |-> FALSE,
              killCalls |-> 0, killSaw |-> "never", byKill |-> 0]
NoResult == [exitCode |-> 0, success |-> FALSE, returned |-> FALSE]
NoProcesses == [claude |-> "none", cat |-> "none", pipe |-> "none"]

SupInit ==
    /\ pc = "preparing"
    /\ now = 0
    /\ claude = "none"
    /\ claudeExit = NoExit
    /\ pendingTerm = "none"
    /\ helpers = [h \in Helpers |-> "none"]
    /\ timeoutId = FALSE
    /\ graceTimer = NoGrace
    /\ resolved = FALSE
    /\ exitCode = 0
    /\ result = NoResult
    /\ atReturn = NoProcesses
    /\ signals = NoSignals

\* A 'close' handler that resolves with 0 whatever the exit code.
closeExitCodeZero(exit) == 0

\* resolve(code || 0) of the 'close' handler.
closeExitCode(exit) == IF ~exit.hasCode \/ exit.code = 0 THEN 0 ELSE exit.code

\* The deadline of the SIGKILL timer armed at time t.
\* A SIGKILL timer that runs one millisecond longer.
graceDeadlineLate(t) == t + GraceMs + 1

graceDeadline(t) == t + GraceMs

\* The ClaudeCodeResult of an exit code.
resultOf(code) == [exitCode |-> code, success |-> code = 0, returned |-> TRUE]

\* kill('SIGTERM') on a helper.
term(state) == IF state = "running" THEN "signalled" ELSE state

\* A resolve that does not set the resolved flag.
resolveUnlatched(code) ==
    /\ resolved' = FALSE
    /\ exitCode' = code
    /\ pc' = "cleanup"
    /\ helpers' = [h \in Helpers |-> term(helpers[h])]

\* The promise resolves; the rest of run() up to `await unlink` follows in
\* the same turn: catProcess.kill('SIGTERM'), pipeProcess.kill('SIGTERM').
resolve(code) ==
    /\ resolved' = TRUE
    /\ exitCode' = code
    /\ pc' = "cleanup"
    /\ helpers' = [h \in Helpers |-> term(helpers[h])]

\* mkdir, createTaskPrompt or mkfifo throws: the catch block returns.
PrepareFails ==
    /\ pc = "preparing"
    /\ pc' = "returned"
    /\ result' = resultOf(ErrorExitCode)
    /\ atReturn' = [claude |-> claude, cat |-> helpers["cat"],
                    pipe |-> helpers["pipe"]]
    /\ UNCHANGED <<now, claude, claudeExit, pendingTerm, helpers, timeoutId,
                   graceTimer, resolved, exitCode, signals>>
    /\ UNCHANGED <<hubVars, clientVars, agentVars, outVars, linkVars, parserVars>>

\* The three spawn calls and setTimeout(..., timeoutMs).  A spawn that
\* fails gives a process object whose 'error' event comes later.
Start(claudeSpawns, pipeSpawns) ==
    /\ pc = "preparing"
    /\ pc' = "waiting"
    /\ claude' = IF claudeSpawns THEN "running" ELSE "spawnfail"
    /\ helpers' = [h \in Helpers |->
                     IF h = "pipe" /\ ~pipeSpawns THEN "spawnfail" ELSE "running"]
    /\ timeoutId' = TRUE
    /\ UNCHANGED <<now, claudeExit, pendingTerm, graceTimer, resolved, exitCode,
                   result, atReturn, signals>>
    /\ UNCHANGED <<hubVars, clientVars, agentVars, outVars, linkVars, parserVars>>

\* claudeProcess.on('error') of the promise.
ClaudeError ==
    /\ claude = "spawnfail"
    /\ claude' = "failed"
    /\ IF ~resolved
       THEN /\ timeoutId' = FALSE
            /\ resolve(ErrorExitCode)
       ELSE UNCHANGED <<timeoutId, resolved, exitCode, pc, helpers>>
    /\ UNCHANGED <<now, claudeExit, pendingTerm, graceTimer, result, atReturn,
                   signals>>
    /\ UNCHANGED <<hubVars, clientVars, agentVars, outVars, linkVars, parserVars>>

\* pipeProcess.on('error'): claudeProcess.kill('SIGTERM').
PipeError ==
    /\ helpers["pipe"] = "spawnfail"
    /\ helpers' = [helpers EXCEPT !["pipe"] = "failed"]
    /\ pendingTerm' = IF claude = "running" /\ pendingTerm = "none"
                      THEN "pipeError" ELSE pendingTerm
    /\ UNCHANGED <<pc, now, claude, claudeExit, timeoutId, graceTimer, resolved,
                   exitCode, result, atReturn, signals>>
    /\ UNCHANGED <<hubVars, clientVars, agentVars, outVars, linkVars, parserVars>>

\* The ways claudeProcess can end now: by itself with an exit code, killed
\* from outside, or killed by the SIGTERM it was sent.
Endings ==
    {Exited(code) : code \in ExitCodes}
    \cup {Killed("SIGKILL", "external")}
    \cup (IF pendingTerm # "none" THEN {Killed("SIGTERM", pendingTerm)} ELSE {})

ClaudeExits(exit) ==
    /\ claude = "running"
    /\ claude' = "exited"
    /\ claudeExit' = exit
    /\ pendingTerm' = "none"
    /\ UNCHANGED <<pc, now, helpers, timeoutId, graceTimer, resolved, exitCode,
                   result, atReturn, signals>>
    /\ UNCHANGED <<hubVars, clientVars, agentVars, outVars, linkVars, parserVars>>

\* claudeProcess.on('close').
ClaudeClose ==
    /\ claude = "exited"
    /\ claude' = "closed"
    /\ IF ~resolved
       THEN /\ timeoutId' = FALSE
            /\ resolve(closeExitCode(claudeExit))
       ELSE UNCHANGED <<timeoutId, resolved, exitCode, pc, helpers>>
    /\ UNCHANGED <<now, claudeExit, pendingTerm, graceTimer, result, atReturn,
                   signals>>
    /\ UNCHANGED <<hubVars, clientVars, agentVars, outVars, linkVars, parserVars>>

\* The timeout callback.
Timeout ==
    /\ timeoutId
    /\ now = timeoutMs
    /\ timeoutId' = FALSE
    /\ IF ~resolved
       THEN /\ pendingTerm' = IF claude = "running" /\ pendingTerm = "none"
                              THEN "timeout" ELSE pendingTerm
            /\ graceTimer' = [armed |-> TRUE, at |-> graceDeadline(now)]
            /\ signals' = [signals EXCEPT !.termSent = TRUE, !.termAt = now,
                               !.timedOut = TRUE,
                               !.runningAtDeadline = (claude = "running")]
            /\ resolve(TimeoutExitCode)
       ELSE UNCHANGED <<pendingTerm, graceTimer, signals, resolved, exitCode,
                        pc, helpers>>
    /\ UNCHANGED <<now, claude, claudeExit, result, atReturn>>
    /\ UNCHANGED <<hubVars, clientVars, agentVars, outVars, linkVars, parserVars>>

\* The callback of the SIGKILL timer: a running process dies of the signal.
ForceKill ==
    /\ graceTimer.armed
    /\ now = graceTimer.at
    /\ graceTimer' = NoGrace
    /\ signals' = [signals EXCEPT !.killSent = TRUE, !.killAt = now]
    /\ IF claude = "running"
       THEN /\ claude' = "exited"
            /\ claudeExit' = Killed("SIGKILL", "timeout")
            /\ pendingTerm' = "none"
       ELSE UNCHANGED <<claude, claudeExit, pendingTerm>>
    /\ UNCHANGED <<pc, now, helpers, timeoutId, resolved, exitCode, result,
                   atReturn>>
    /\ UNCHANGED <<hubVars, clientVars, agentVars, outVars, linkVars, parserVars>>

\* A helper ends: by itself, or of the SIGTERM it was sent.
HelperExits(h) ==
    /\ helpers[h] \in {"running", "signalled"}
    /\ helpers' = [helpers EXCEPT ![h] = "exited"]
    /\ UNCHANGED <<pc, now, claude, claudeExit, pendingTerm, timeoutId,
                   graceTimer, resolved, exitCode, result, atReturn, signals>>
    /\ UNCHANGED <<hubVars, clientVars, agentVars, outVars, linkVars, parserVars>>

\* `await unlink` is over: run() returns its result.
Return ==
    /\ pc = "cleanup"
    /\ pc' = "returned"
    /\ result' = resultOf(exitCode)
    /\ atReturn' = [claude |-> claude, cat |-> helpers["cat"],
                    pipe |-> helpers["pipe"]]
    /\ UNCHANGED <<now, claude, claudeExit, pendingTerm, helpers, timeoutId,
                   graceTimer, resolved, exitCode, signals>>
    /\ UNCHANGED <<hubVars, clientVars, agentVars, outVars, linkVars, parserVars>>

\* The signal kill() sends to claudeProcess in a given state of the process:
\* none, the method only writes a line to the console.
\* A kill() that sends SIGKILL whatever the state of the process.
killSignalAlways(state) == "SIGKILL"

killSignal(state) == "none"

\* The owner calls kill().  killSaw is the state of claudeProcess at the
\* call, byKill the number of signals kill() has sent.
Kill ==
    /\ signals.killCalls < MaxKills
    /\ LET sig == killSignal(claude)
       IN /\ signals' = [signals EXCEPT !.killCalls = @ + 1, !.killSaw = claude,
                              !.byKill = IF sig = "none" THEN @ ELSE @ + 1]
          /\ IF sig # "none" /\ claude = "running"
             THEN /\ claude' = "exited"
                  /\ claudeExit' = Killed(sig, "kill")
                  /\ pendingTerm' = "none"
             ELSE UNCHANGED <<claude, claudeExit, pendingTerm>>
    /\ UNCHANGED <<pc, now, helpers, timeoutId, graceTimer, resolved, exitCode,
                   result, atReturn>>
    /\ UNCHANGED <<hubVars, clientVars, agentVars, outVars, linkVars, parserVars>>

\* Time passes, up to the next deadline of an armed timer; a timer that is
\* due fires first, and so does the 'error' event of a failed spawn.
Deadlines ==
    (IF timeoutId THEN {timeoutMs} ELSE {})
    \cup (IF graceTimer.armed THEN {graceTimer.at} ELSE {})

Min(a, b) == IF a <= b THEN a ELSE b

Tick ==
    /\ Deadlines # {}
    /\ \A d \in Deadlines : now < d
    /\ claude # "spawnfail"
    /\ now' = Min(now + TickMs, CHOOSE d \in Deadlines : \A e \in Deadlines : d <= e)
    /\ UNCHANGED <<pc, claude, claudeExit, pendingTerm, helpers, timeoutId,
                   graceTimer, resolved, exitCode, result, atReturn, signals>>
    /\ UNCHANGED <<hubVars, clientVars, agentVars, outVars, linkVars, parserVars>>

NextSup ==
    \/ PrepareFails
    \/ \E claudeSpawns \in BOOLEAN, pipeSpawns \in BOOLEAN :
          Start(claudeSpawns, pipeSpawns)
    \/ ClaudeError
    \/ PipeError
    \/ \E exit \in Endings : ClaudeExits(exit)
    \/ ClaudeClose
    \/ Timeout
    \/ ForceKill
    \/ \E h \in Helpers : HelperExits(h)
    \/ Return
    \/ Kill
    \/ Tick

(***************************************************************************)
(* The agent (docker-wrapper index.ts): main(), handleError(),             *)
(* handleShutdown() and cleanup().  It owns a LogStreamer, whose send      *)
(* methods and connect() / disconnect() are those of the WebSocketClient   *)
(* above, and a ClaudeCodeRunner, of which it sees the result of run().    *)
(* No write of the agent throws.                                           *)
(***************************************************************************)
AgentEnvelope(type, status, code) ==
    [type |-> type, status |-> status, exitCode |-> code]
StatusEnvelope(status) == AgentEnvelope("STATUS", status, 0)
ErrorEnvelope == AgentEnvelope("ERROR", Falsy, 0)
LogEnvelope == AgentEnvelope("LOG", Falsy, 0)
CompleteEnvelope(code) == AgentEnvelope("COMPLETE", Falsy, code)

NoAgentExit == [exited |-> FALSE, code |-> 0]
AgentExited(code) == [exited |-> TRUE, code |-> code]

AgentInit ==
    /\ agentPc = "main"
    /\ agentSent = <<>>
    /\ agentEnd = "none"
    /\ agentExit = NoAgentExit

\* The ways run() can end, and the exit code of the result it returns then:
\* the process exits with a code, is killed by a signal (crash), runs into
\* the timeout, or fails to spawn.
RunOutcomes ==
    {[end |-> IF code = 0 THEN "success" ELSE "nonzero",
      code |-> closeExitCode(Exited(code))] : code \in ExitCodes}
    \cup {[end |-> "crash", code |-> closeExitCode(Killed("SIGKILL", "external"))],
          [end |-> "timeout", code |-> TimeoutExitCode],
          [end |-> "spawnError", code |-> ErrorExitCode]}

\* Consecutive send calls of the agent.
RECURSIVE sendEach(_, _, _)
sendEach(c, envelopes, i) ==
    IF i > Len(envelopes) THEN c
    ELSE sendEach(sendMessage(c, envelopes[i], FALSE), envelopes, i + 1)

\* The agent sends the envelopes, the client being in state c.
emit(c, envelopes) ==
    LET d == sendEach(c, envelopes, 1)
    IN /\ messageQueue' = d.messageQueue
       /\ wire' = d.wire
       /\ agentSent' = agentSent \o envelopes

\* handleError(error): sendError, sendStatus('failed').
handleError(c) == emit(c, <<ErrorEnvelope, StatusEnvelope("failed")>>)

\* The statistics timer of the LogStreamer fires: wsClient.sendHeartbeat().
\* main() starts the timer once `await logStreamer.connect()` has returned,
\* cleanup() stops it; the state of the connection plays no part.
StatsTimerFires ==
    /\ agentPc \in {"validating", "cloning", "running"}
    /\ beats < MaxBeats
    /\ beats' = beats + 1
    /\ LET c == sendMessage(Out(connected, clientWs, messageQueue, wire),
                            HeartbeatEnvelope, FALSE)
       IN /\ messageQueue' = c.messageQueue
          /\ wire' = c.wire
    /\ UNCHANGED <<clientWs, connected, connectAttempts, reconnectTimer,
                   heartbeatTimer, sent, connects, everOpened, failedAttempts,
                   failedEmitted, lastFlush, orphans, promise>>
    /\ UNCHANGED agentVars
    /\ UNCHANGED <<hubVars, supVars, outVars, linkVars, parserVars>>

\* cleanup() (kill(), which only logs; stopStatsReporting(); disconnect()),
\* and the end of the process, which ends every socket it has.
handleShutdown(end, code) ==
    /\ connected' = FALSE
    /\ heartbeatTimer' = FALSE
    /\ reconnectTimer' = NoTimer
    /\ clientWs' = "null"
    /\ orphans' = 0
    /\ agentPc' = "exited"
    /\ agentEnd' = end
    /\ agentExit' = AgentExited(code)

\* main() up to `await logStreamer.connect()`.
AgentMain ==
    /\ agentPc = "main"
    /\ agentPc' = "connecting"
    /\ emit(Out(connected, clientWs, messageQueue, wire),
            <<StatusEnvelope("starting")>>)
    /\ connects' = connects + 1
    /\ connect(reconnectTimer)
    /\ UNCHANGED <<connectAttempts, sent, beats, everOpened, failedAttempts,
                   failedEmitted, lastFlush, agentEnd, agentExit>>
    /\ promise' = "pending"
    /\ UNCHANGED <<hubVars, supVars, outVars, linkVars, parserVars>>

\* ws.on('open'); if it is the socket main() waits for, LogStreamer.connect
\* and main() go on up to `await gitManager.validateRepository`.
AgentOnOpen ==
    /\ agentPc # "exited"
    /\ clientWs = "CONNECTING"
    /\ clientWs' = "OPEN"
    /\ connected' = TRUE
    /\ connectAttempts' = 0
    /\ heartbeatTimer' = TRUE
    /\ everOpened' = TRUE
    /\ LET c == flushMessageQueue(Out(TRUE, "OPEN", messageQueue, wire), {})
           awaited == agentPc = "connecting" /\ failedAttempts = 0
       IN /\ lastFlush' = [queue |-> messageQueue,
                           written |-> SubSeq(c.wire, Len(wire) + 1, Len(c.wire))]
          /\ IF awaited
             THEN /\ emit(c, <<StatusEnvelope("starting"), LogEnvelope>>)
                  /\ agentPc' = "validating"
             ELSE /\ emit(c, <<>>)
                  /\ UNCHANGED agentPc
    /\ UNCHANGED <<reconnectTimer, sent, beats, connects, failedAttempts,
                   failedEmitted, orphans, agentEnd, agentExit>>
    /\ promise' = settle(promise, "resolved")
    /\ UNCHANGED <<hubVars, supVars, outVars, linkVars, parserVars>>

\* gitManager.validateRepository resolves true: main() goes on up to
\* `await gitManager.cloneRepository`.
AgentValidated ==
    /\ agentPc = "validating"
    /\ agentPc' = "cloning"
    /\ emit(Out(connected, clientWs, messageQueue, wire),
            <<StatusEnvelope("running"), LogEnvelope>>)
    /\ UNCHANGED <<clientWs, connected, connectAttempts, reconnectTimer,
                   heartbeatTimer, sent, beats, connects, everOpened,
                   failedAttempts, failedEmitted, lastFlush, orphans, agentEnd,
                   agentExit>>
    /\ UNCHANGED promise
    /\ UNCHANGED <<hubVars, supVars, outVars, linkVars, parserVars>>

\* gitManager.cloneRepository resolves: main() goes on up to
\* `await claudeCodeRunner.run`.
AgentCloned ==
    /\ agentPc = "cloning"
    /\ agentPc' = "running"
    /\ emit(Out(connected, clientWs, messageQueue, wire),
            <<LogEnvelope, StatusEnvelope("running"), LogEnvelope>>)
    /\ UNCHANGED <<clientWs, connected, connectAttempts, reconnectTimer,
                   heartbeatTimer, sent, beats, connects, everOpened,
                   failedAttempts, failedEmitted, lastFlush, orphans, agentEnd,
                   agentExit>>
    /\ UNCHANGED promise
    /\ UNCHANGED <<hubVars, supVars, outVars, linkVars, parserVars>>

\* run() returns: main() reports the result, then `finally` runs cleanup()
\* and the process ends with the event loop, exit code 0.
AgentRunReturns(outcome) ==
    /\ agentPc = "running"
    /\ LET r == resultOf(outcome.code)
       IN emit(Out(connected, clientWs, messageQueue, wire),
               IF r.success
               THEN <<StatusEnvelope("completed"), CompleteEnvelope(r.exitCode)>>
               ELSE <<StatusEnvelope("failed"), CompleteEnvelope(r.exitCode)>>)
    /\ handleShutdown(outcome.end, 0)
    /\ UNCHANGED <<connectAttempts, sent, beats, connects, everOpened,
                   failedAttempts, failedEmitted, lastFlush>>
    /\ UNCHANGED promise
    /\ UNCHANGED <<hubVars, supVars, outVars, linkVars, parserVars>>

\* An await of main() throws (the repository is not accessible, the clone
\* fails), the socket or the LogStreamer emits 'error', or an exception is
\* uncaught: handleError(error), then handleShutdown(1).
AgentThrows ==
    /\ agentPc \in {"connecting", "validating", "cloning", "running"}
    /\ handleError(Out(connected, clientWs, messageQueue, wire))
    /\ handleShutdown("exception", ErrorExitCode)
    /\ UNCHANGED <<connectAttempts, sent, beats, connects, everOpened,
                   failedAttempts, failedEmitted, lastFlush>>
    /\ UNCHANGED promise
    /\ UNCHANGED <<hubVars, supVars, outVars, linkVars, parserVars>>

\* The transport of the agent's socket fails (the connection is refused or
\* reset, a read or a write fails): ws.on('error') re-emits the error, the
\* LogStreamer re-emits it, and its listener in main() is handleError.
AgentTransportError ==
    /\ agentPc \in {"connecting", "validating", "cloning", "running"}
    /\ clientWs \in {"CONNECTING", "OPEN"}
    /\ handleError(Out(connected, clientWs, messageQueue, wire))
    /\ handleShutdown("transportError", ErrorExitCode)
    /\ UNCHANGED <<connectAttempts, sent, beats, connects, everOpened,
                   failedAttempts, failedEmitted, lastFlush>>
    /\ UNCHANGED promise
    /\ UNCHANGED <<hubVars, supVars, outVars, linkVars, parserVars>>

\* SIGINT or SIGTERM: handleShutdown(signal) runs cleanup() and calls
\* process.exit with the name of the signal, which either ends the process
\* with code 0 or throws (then the rejection goes to handleError, after the
\* client was disconnected, and the process ends with code 1).
AgentSignal(exitThrows) ==
    /\ agentPc # "exited"
    /\ IF exitThrows /\ agentPc # "main"
       THEN handleError(Out(FALSE, "null", messageQueue, wire))
       ELSE emit(Out(FALSE, "null", messageQueue, wire), <<>>)
    /\ handleShutdown("signal", IF exitThrows THEN ErrorExitCode ELSE 0)
    /\ UNCHANGED <<connectAttempts, sent, beats, connects, everOpened,
                   failedAttempts, failedEmitted, lastFlush>>
    /\ UNCHANGED promise
    /\ UNCHANGED <<hubVars, supVars, outVars, linkVars, parserVars>>

NextAgent ==
    \/ AgentMain
    \/ AgentOnOpen
    \/ AgentValidated
    \/ AgentCloned
    \/ \E outcome \in RunOutcomes : AgentRunReturns(outcome)
    \/ AgentThrows
    \/ AgentTransportError
    \/ StatsTimerFires
    \/ \E exitThrows \in BOOLEAN : AgentSignal(exitThrows)
    \/ ClientTransportDown
    \/ ClientOnClose
    \/ ReconnectTimerFires

(***************************************************************************)
(* The standard output of the child process (docker-wrapper): the 'data'   *)
(* handlers of ClaudeCodeRunner.run and of ProcessRunner, and the wiring   *)
(* of the agent's main() to the LogStreamer.  A text is a sequence of      *)
(* characters, a line a text without a newline.                            *)
(***************************************************************************)
Newline == "\n"
Whitespace == {" ", Newline}
Chars == {"1"} \cup Whitespace

\* The texts a child process may write.
Texts == UNION {[1..k -> Chars] : k \in 0..MaxText}

\* String.prototype.split('\n').
RECURSIVE split(_)
split(text) ==
    IF \A i \in 1..Len(text) : text[i] # Newline THEN <<text>>
    ELSE LET i == CHOOSE k \in 1..Len(text) :
                      /\ text[k] = Newline
                      /\ \A j \in 1..(k - 1) : text[j] # Newline
         IN <<SubSeq(text, 1, i - 1)>> \o split(SubSeq(text, i + 1, Len(text)))

\* String.prototype.trim().
RECURSIVE trim(_)
trim(line) ==
    IF line = <<>> THEN line
    ELSE IF Head(line) \in Whitespace THEN trim(Tail(line))
    ELSE IF line[Len(line)] \in Whitespace
         THEN trim(SubSeq(line, 1, Len(line) - 1))
    ELSE line

\* JSON.parse(line) does not throw: over Chars, the line is a number with
\* white space around it.
isJSON(line) ==
    /\ trim(line) # <<>>
    /\ \A i \in 1..Len(trim(line)) : trim(line)[i] = "1"

\* JSON.stringify(JSON.parse(line), null, 2) of such a line.
prettyJson(line) == trim(line)

\* LogStreamer.streamOutput: wsClient.sendLog('info', output.line).
streamOutput(handed, line) == Append(handed, line)

\* The callback main() passes to claudeCodeRunner.run().
outputCallback(handed, line) == streamOutput(handed, line)

\* ClaudeCodeRunner.processOutputLine: emit('output'), which runs the
\* listener main() registered, then the callback.  st holds the events
\* emitted and the lines handed to the client.
processOutputLine(st, line) ==
    IF trim(line) = <<>> THEN st
    ELSE LET shown == IF isJSON(line) THEN prettyJson(line) ELSE line
         IN [output |-> Append(st.output, shown),
             logs |-> outputCallback(streamOutput(st.logs, shown), shown)]

\* The loop of the stdout 'data' handler of ClaudeCodeRunner.run.
RECURSIVE processLines(_, _, _)
processLines(st, lines, index) ==
    IF index > Len(lines) THEN st
    ELSE IF trim(lines[index]) = <<>> /\ index = Len(lines)
    THEN processLines(st, lines, index + 1)
    ELSE processLines(processOutputLine(st, lines[index]), lines, index + 1)

\* The loop of ProcessRunner.processOutput.
RECURSIVE emitLines(_, _, _)
emitLines(out, lines, index) ==
    IF index > Len(lines) THEN out
    ELSE IF lines[index] # <<>>
    THEN emitLines(Append(out, lines[index]), lines, index + 1)
    ELSE emitLines(out, lines, index + 1)

\* ProcessRunner.processOutput for a chunk of stdout.
processOutput(st, text) ==
    LET lines == split(st.outputBuffer \o text)
    IN [outputBuffer |-> lines[Len(lines)],
        output |-> emitLines(st.output, SubSeq(lines, 1, Len(lines) - 1), 1)]

\* ProcessRunner.cleanup.
cleanup(st) ==
    IF st.outputBuffer # <<>>
    THEN [outputBuffer |-> <<>>, output |-> Append(st.output, st.outputBuffer)]
    ELSE st

OutInit ==
    /\ runner = "none"
    /\ stdout = <<>>
    /\ readPos = 0
    /\ outputBuffer = <<>>
    /\ output = <<>>
    /\ logs = <<>>
    /\ exited = FALSE

Runners == {"ClaudeCodeRunner", "ProcessRunner"}

\* run(): spawn.  text is what the child process is going to write.
Spawn(r, text) ==
    /\ runner = "none"
    /\ runner' = r
    /\ stdout' = text
    /\ UNCHANGED <<readPos, outputBuffer, output, logs, exited>>
    /\ UNCHANGED <<hubVars, clientVars, supVars, agentVars, linkVars, parserVars>>

\* The next n characters of stdout, one chunk.
Chunk(n) == SubSeq(stdout, readPos + 1, readPos + n)

\* claudeProcess.stdout.on('data').
ClaudeStdoutData(n) ==
    /\ runner = "ClaudeCodeRunner"
    /\ readPos + n <= Len(stdout)
    /\ LET st == processLines([output |-> output, logs |-> logs],
                              split(Chunk(n)), 1)
       IN /\ output' = st.output
          /\ logs' = st.logs
    /\ readPos' = readPos + n
    /\ UNCHANGED <<runner, stdout, outputBuffer, exited>>
    /\ UNCHANGED <<hubVars, clientVars, supVars, agentVars, linkVars, parserVars>>

\* this.process.stdout.on('data') of ProcessRunner.  The streams of a child
\* process may still be open when its 'exit' event is emitted.
ProcessStdoutData(n) ==
    /\ runner = "ProcessRunner"
    /\ readPos + n <= Len(stdout)
    /\ LET st == processOutput([outputBuffer |-> outputBuffer,
                                output |-> output], Chunk(n))
       IN /\ outputBuffer' = st.outputBuffer
          /\ output' = st.output
    /\ readPos' = readPos + n
    /\ UNCHANGED <<runner, stdout, logs, exited>>
    /\ UNCHANGED <<hubVars, clientVars, supVars, agentVars, linkVars, parserVars>>

\* this.process.on('exit') of ProcessRunner: cleanup().
ProcessExit ==
    /\ runner = "ProcessRunner"
    /\ ~exited
    /\ exited' = TRUE
    /\ LET st == cleanup([outputBuffer |-> outputBuffer, output |-> output])
       IN /\ outputBuffer' = st.outputBuffer
          /\ output' = st.output
    /\ UNCHANGED <<runner, stdout, readPos, logs>>
    /\ UNCHANGED <<hubVars, clientVars, supVars, agentVars, linkVars, parserVars>>

NextOut ==
    \/ \E r \in Runners, text \in Texts : Spawn(r, text)
    \/ \E n \in 1..MaxText : ClaudeStdoutData(n)
    \/ \E n \in 1..MaxText : ProcessStdoutData(n)
    \/ ProcessExit

(***************************************************************************)
(* The handshake of one WebSocketClient with the hub: the constructor and  *)
(* connect() of the client, verifyClient and wss.on('connection') of the   *)
(* hub, and the envelopes the client stamps once it is connected.          *)
(***************************************************************************)
Query(token, session) == [token |-> token, containerID |-> session]
NoUrl == Query(Falsy, Falsy)

\* The URLs an owner may configure: with or without a token, with or without
\* a containerID.
Urls == {Query(token, session) :
            token \in Tokens, session \in ContainerIDs \cup {Falsy}}

LinkInit ==
    /\ linkPc = "new"
    /\ serverUrl = NoUrl
    /\ configuredID = Falsy
    /\ upgradeUrl = NoUrl
    /\ boundAs = Falsy
    /\ stamped = <<>>

\* new WebSocketClient({serverUrl, containerID}).
Construct(url, session) ==
    /\ linkPc = "new"
    /\ linkPc' = "constructed"
    /\ serverUrl' = url
    /\ configuredID' = session
    /\ UNCHANGED <<upgradeUrl, boundAs, stamped>>
    /\ UNCHANGED <<hubVars, clientVars, supVars, agentVars, outVars, parserVars>>

\* connect(): new WebSocket(this.serverUrl).  After a refusal, the 'close'
\* handler's reconnect() calls it again.
Upgrade ==
    /\ linkPc \in {"constructed", "refused"}
    /\ linkPc' = "requested"
    /\ upgradeUrl' = serverUrl
    /\ UNCHANGED <<serverUrl, configuredID, boundAs, stamped>>
    /\ UNCHANGED <<hubVars, clientVars, supVars, agentVars, outVars, parserVars>>

\* verifyClient, and for a request it lets through wss.on('connection').
VerifyClient ==
    /\ linkPc = "requested"
    /\ IF authenticateConnection(upgradeUrl.token)
       THEN /\ linkPc' = "accepted"
            /\ boundAs' = upgradeUrl.containerID
       ELSE /\ linkPc' = "refused"
            /\ UNCHANGED boundAs
    /\ UNCHANGED <<serverUrl, configuredID, upgradeUrl, stamped>>
    /\ UNCHANGED <<hubVars, clientVars, supVars, agentVars, outVars, parserVars>>

\* ws.on('open') of the client.
LinkOpen ==
    /\ linkPc = "accepted"
    /\ linkPc' = "connected"
    /\ UNCHANGED <<serverUrl, configuredID, upgradeUrl, boundAs, stamped>>
    /\ UNCHANGED <<hubVars, clientVars, supVars, agentVars, outVars, parserVars>>

\* sendLog, sendStatus, sendError, sendHeartbeat, sendComplete.
stamp(type) == [type |-> type, containerID |-> configuredID]

LinkSend(type) ==
    /\ linkPc = "connected"
    /\ Len(stamped) < MaxSend
    /\ stamped' = Append(stamped, stamp(type))
    /\ UNCHANGED <<linkPc, serverUrl, configuredID, upgradeUrl, boundAs>>
    /\ UNCHANGED <<hubVars, clientVars, supVars, agentVars, outVars, parserVars>>

NextLink ==
    \/ \E url \in Urls, session \in ContainerIDs : Construct(url, session)
    \/ Upgrade
    \/ VerifyClient
    \/ LinkOpen
    \/ \E type \in MessageType : LinkSend(type)

(***************************************************************************)
(* OutputParser (docker-wrapper/src/output-parser.ts), with the default    *)
(* options: includeLineNumbers is true.  Of an entry the model keeps the   *)
(* lineNumber.                                                             *)
(***************************************************************************)
ParserInit ==
    /\ buffer = <<>>
    /\ lineCount = 0
    /\ returned = <<>>
    /\ parseCalls = 0

\* parseLine(line, lineNumber): sets lineCount to lineNumber + 1 and stamps
\* the entry with the new lineCount.
parseLine(line, lineNumber) ==
    [lineCount |-> lineNumber + 1, entry |-> [lineNumber |-> lineNumber + 1]]

\* .map((line, index) => this.parseLine(line, this.lineCount + index)): the
\* callback reads lineCount when it is called for the index-th kept line
\* (index counts from 0), after the calls for the lines before it.
RECURSIVE mapLines(_, _, _, _)
mapLines(count, lines, index, acc) ==
    IF index >= Len(lines) THEN [lineCount |-> count, result |-> acc]
    ELSE LET p == parseLine(lines[index + 1], count + index)
         IN mapLines(p.lineCount, lines, index + 1, Append(acc, p.entry))

\* parse(text): st is the parser (buffer, lineCount); the value holds the
\* parser after the call and the entries returned.
parse(st, text) ==
    LET lines == split(st.buffer \o text)
        kept == SelectSeq(SubSeq(lines, 1, Len(lines) - 1),
                          LAMBDA line : Len(trim(line)) > 0)
        m == mapLines(st.lineCount, kept, 0, <<>>)
    IN [buffer |-> lines[Len(lines)], lineCount |-> m.lineCount,
        result |-> m.result]

\* flush().
flush(st) ==
    IF st.buffer = <<>>
    THEN [buffer |-> st.buffer, lineCount |-> st.lineCount, result |-> <<>>]
    ELSE IF Len(trim(st.buffer)) > 0
    THEN LET p == parseLine(st.buffer, st.lineCount)
         IN [buffer |-> <<>>, lineCount |-> p.lineCount, result |-> <<p.entry>>]
    ELSE [buffer |-> <<>>, lineCount |-> st.lineCount, result |-> <<>>]

\* The owner calls parse(text).
Parse(text) ==
    /\ parseCalls < MaxParse
    /\ parseCalls' = parseCalls + 1
    /\ LET st == parse([buffer |-> buffer, lineCount |-> lineCount], text)
       IN /\ buffer' = st.buffer
          /\ lineCount' = st.lineCount
          /\ returned' = returned \o st.result
    /\ UNCHANGED <<hubVars, clientVars, supVars, agentVars, outVars, linkVars>>

\* The owner calls flush().
Flush ==
    /\ LET st == flush([buffer |-> buffer, lineCount |-> lineCount])
       IN /\ buffer' = st.buffer
          /\ lineCount' = st.lineCount
          /\ returned' = returned \o st.result
    /\ UNCHANGED parseCalls
    /\ UNCHANGED <<hubVars, clientVars, supVars, agentVars, outVars, linkVars>>

NextParser ==
    \/ \E text \in Texts : Parse(text)
    \/ Flush

(***************************************************************************)
(* The specifications.  Each starts from the state after construction of   *)
(* all the components and runs one of them.                                *)
(***************************************************************************)
Init ==
    /\ HubInit /\ ClientInit /\ SupInit /\ AgentInit /\ OutInit /\ LinkInit
    /\ ParserInit

SpecHub == Init /\ [][NextHub]_vars
SpecClient == Init /\ [][NextClient]_vars
SpecSup == Init /\ [][NextSup]_vars

\* The life cycle of the client's connection: the steps of the client that
\* read or write the socket, the connected flag, the attempt counter or the
\* reconnect timer.  sendMessage touches none of them.
NextConnection ==
    \/ Connect
    \/ ReconnectTimerFires
    \/ ClientOnOpen
    \/ ClientTransportDown
    \/ ClientOnClose
    \/ Disconnect
    \/ OrphanEnds

\* The connection with the events Node.js is bound to deliver: the 'close'
\* event of a socket whose transport is down, and the callback of an armed
\* timer.
SpecClientLive ==
    /\ Init /\ [][NextConnection]_vars
    /\ WF_vars(ClientOnClose)
    /\ WF_vars(ReconnectTimerFires)
SpecAgent == Init /\ [][NextAgent]_vars
SpecOut == Init /\ [][NextOut]_vars
SpecLink == Init /\ [][NextLink]_vars
SpecParser == Init /\ [][NextParser]_vars

(***************************************************************************)
(* Hub: properties.                                                        *)
(***************************************************************************)

\* C1: in every reachable state of the registry every session entry has at
\* least one member; an entry with an empty member set is never observable.
NoEmptySession == \A c \in DOMAIN connections : connections[c] # {}

\* A sweep has just evicted the last member of a session, and the entry of
\* that session is gone.
LastMemberEvicted ==
    /\ last.op = "sweep"
    /\ \E s \in last.evicted :
          /\ s \in DOMAIN connectionInfo
          /\ connectionInfo[s].containerID \notin DOMAIN connections

\* The session the sender of the most recent broadcast was bound to at
\* connect time (Falsy when it connected without a containerID).
SenderSession == connectionInfo[last.ws].containerID

\* C2: a valid non-heartbeat envelope from a connection bound to session S
\* is written to every member of S (every member with an open socket whose
\* write succeeds).
BroadcastReachesSenderSession ==
    (last.op = "broadcast" /\ SenderSession # Falsy) =>
        \A t \in last.members :
            (readyState[t] = "OPEN" /\ t \notin last.failing) => t \in last.sentTo

\* C3: a non-heartbeat envelope received on a connection bound to session S
\* is written only to connections bound to S, whatever containerID the
\* envelope carries.
BroadcastStaysInSenderSession ==
    (last.op = "broadcast" /\ SenderSession # Falsy) =>
        \A t \in last.sentTo :
            /\ t \in DOMAIN connectionInfo
            /\ connectionInfo[t].containerID = SenderSession

GraceWindow ==
    last.op = "sweep" =>
        /\ \A s \in last.evicted : s \notin last.heard
        /\ \A s \in last.members \ last.heard : s \notin Members(connections)

\* C12: every connection that passes the token check, whatever containerID
\* it presents (none included), is a member of the registry once the
\* connection handler has run, and was sent the STATUS(running) welcome.
EveryAcceptedBoundAndWelcomed ==
    last.op = "accept" =>
        /\ last.ws \in Members(connections)
        /\ last.ws \in DOMAIN connectionMetadata
        /\ last.sentTo = {last.ws}
        /\ last.message.type = "STATUS"

\* The most recent handler took a valid envelope (of any type) from last.ws.
ValidEnvelopeHandled(l) == l.op \in {"broadcast", "heartbeat"}

\* C13: a valid envelope of any type (LOG, STATUS, ERROR, COMPLETE,
\* HEARTBEAT) raises the liveness flag of the connection it came from, and
\* a sweep that follows it does not evict that connection.
ValidEnvelopeKeepsAlive ==
    [][/\ ValidEnvelopeHandled(last') =>
             connectionInfo'[last'.ws].isAlive
       /\ (ValidEnvelopeHandled(last) /\ last'.op = "sweep") =>
             last.ws \notin last'.evicted]_vars

\* A message with the four required fields and a type of MessageType.
HasRequiredFields(message) ==
    /\ message.type \in MessageType
    /\ message.containerID # Falsy
    /\ message.timestamp # Falsy
    /\ message.data # Falsy

PayloadMatchesType(message) ==
    \/ message.data = "payload"
    \/ message.type = "STATUS" /\ message.data = "StatusData:running"
    \/ message.type = "HEARTBEAT" /\ message.data = "HeartbeatData"

\* C15: an envelope whose payload does not have the shape of its type is
\* discarded: it is written to no connection.
MismatchedPayloadDiscarded ==
    last.op \in {"broadcast", "heartbeat"} =>
        (PayloadMatchesType(last.message) \/ last.sentTo = {})

\* C16: gracefulShutdown closes (normal closure) every socket that is open,
\* empties the registry and disarms the sweep timer; a second
\* gracefulShutdown changes nothing.
ShutdownClosesEveryConnection ==
    [][GracefulShutdown =>
          /\ \A s \in Sock : readyState[s] = "OPEN" => readyState'[s] = "CLOSING"
          /\ connections' = EmptyMap /\ connectionMetadata' = EmptyMap
          /\ ~heartbeatInterval'
          /\ ~listening => UNCHANGED <<readyState, connections,
                                       connectionMetadata, connectionInfo,
                                       heartbeatInterval, listening>>]_vars

(***************************************************************************)
(* Client: properties.                                                     *)
(***************************************************************************)

\* The elements of a sequence.
Range(q) == {q[i] : i \in 1..Len(q)}

\* C5: no envelope the owner has sent is dropped, and the 'open' handler
\* writes the envelopes it finds queued, all of them and in their order,
\* before anything else is written.
QueuedEnvelopesFlushedFirst ==
    /\ \A n \in 1..sent : Envelope(n) \in Range(messageQueue) \cup Range(wire)
    /\ lastFlush.written = lastFlush.queue

\* The number of 'failed' events after n failed attempts, if the retries
\* end with the attempt number limit.
FailedEventsAfter(n, limit) == IF n >= limit THEN 1 ELSE 0

\* C6 (as the code has it): with connect() called once and every attempt
\* failing, the client emits 'failed' when maxRetries + 1 attempts have
\* failed (the initial attempt and maxRetries reconnections), not before,
\* and makes no further attempt.
FailedAfterInitialPlusRetries ==
    (connects = 1 /\ ~everOpened) =>
        /\ failedAttempts <= maxRetries + 1
        /\ failedEmitted = FailedEventsAfter(failedAttempts, maxRetries + 1)
        /\ failedEmitted = 1 => (~reconnectTimer.pending /\ clientWs \in {"CLOSED", "null"})

\* The last of maxRetries + 1 attempts has failed and 'failed' was emitted.
RetriesExhausted ==
    /\ connects = 1
    /\ ~everOpened
    /\ failedAttempts = maxRetries + 1
    /\ failedEmitted = 1
    /\ clientWs = "CLOSED"

\* C6 (as the specification has it): with connect() called once and every
\* attempt failing, the client emits 'failed' when maxRetries attempts have
\* failed, the initial one included.
FailedAfterMaxRetriesAttempts ==
    (connects = 1 /\ ~everOpened) =>
        failedEmitted = FailedEventsAfter(failedAttempts, maxRetries)

\* The transports toward the Hub that are connecting or open: the socket
\* the client holds, and the sockets it dropped.
LiveTransports(ws, n) == n + (IF ws \in {"CONNECTING", "OPEN"} THEN 1 ELSE 0)

\* C19: disconnect(), in any state, leaves the client not connected, with
\* no reconnect or heartbeat timer pending, no transport connecting or open
\* and the queue as it was; from then on no socket is created until the
\* owner calls connect(); and the 'open' handler flushes the queue it finds.
DisconnectIsFinal ==
    [][/\ Disconnect =>
             /\ ~connected' /\ ~heartbeatTimer' /\ ~reconnectTimer'.pending
             /\ clientWs' = "null"
             /\ LiveTransports(clientWs', orphans') = 0
             /\ messageQueue' = messageQueue
       /\ (clientWs = "null" /\ clientWs' # "null") => connects' = connects + 1
       /\ ClientOnOpen => lastFlush'.queue = messageQueue]_vars

\* C20: at every moment at most one transport toward the Hub is connecting
\* or open.
AtMostOneTransport == LiveTransports(clientWs, orphans) <= 1

\* C21: once 'failed' has been emitted, no reconnect timer is pending and
\* the client holds no socket that is connecting or open, and is not
\* connected, whatever is called on it afterwards.
FailedIsTerminal ==
    failedEmitted >= 1 =>
        /\ ~reconnectTimer.pending
        /\ clientWs \notin {"CONNECTING", "OPEN"}
        /\ ~connected

\* C24: when the write of a send made while connected on an open socket
\* throws, the envelope is put at the front of the queue, ahead of what the
\* queue held, and the client is no longer connected.
FailedWriteRequeuedAtFront ==
    [][(Send(TRUE) /\ connected /\ clientWs = "OPEN") =>
          /\ messageQueue' = <<Envelope(sent + 1)>> \o messageQueue
          /\ ~connected']_vars

\* C27: the reconnect timer armed after the k-th failure in a row (k = 0,
\* 1, ...) has the delay reconnectInterval * 2^k: it is armed with
\* reconnectInterval * 2^connectAttempts and, while no attempt has succeeded,
\* that is reconnectInterval * 2^(failed attempts - 1); connectAttempts
\* grows by one, at a failed attempt, and goes back to 0 only when a socket
\* opens, never in disconnect() or connect().
ExponentialBackoff ==
    [][/\ (reconnectTimer'.pending /\ reconnectTimer' # reconnectTimer) =>
             reconnectTimer'.delay = reconnectInterval * 2 ^ connectAttempts
       /\ (reconnectTimer'.pending /\ ~everOpened') =>
             reconnectTimer'.delay = reconnectInterval * 2 ^ (failedAttempts' - 1)
       /\ connectAttempts' > connectAttempts =>
             /\ connectAttempts' = connectAttempts + 1
             /\ clientWs = "CLOSING" /\ clientWs' = "CLOSED"
       /\ connectAttempts' < connectAttempts =>
             /\ connectAttempts' = 0
             /\ clientWs = "CONNECTING" /\ clientWs' = "OPEN" /\ connected'
       /\ (Connect \/ Disconnect) => connectAttempts' = connectAttempts]_vars

\* Two attempts have failed, with a second connect() of the owner in
\* between, and the timer is armed with twice the base interval.
SecondBackoffAfterReconnect ==
    /\ connects = 2
    /\ ~everOpened
    /\ failedAttempts = 2
    /\ reconnectTimer.pending
    /\ reconnectTimer.delay = reconnectInterval * 2

\* The client has made another connection attempt, or the owner has called
\* disconnect(), or the retries are used up.
ReconnectedOrGaveUp ==
    \/ clientWs = "CONNECTING"
    \/ clientWs = "null"
    \/ clientWs = "CLOSED" /\ ~reconnectTimer.pending
          /\ connectAttempts >= maxRetries

\* C28: whenever the transport of the client's socket goes down while the
\* socket is connecting or open, the client eventually makes another
\* connection attempt, unless the owner calls disconnect() or
\* connectAttempts has reached maxRetries.
TransportLossReconnects == (clientWs = "CLOSING") ~> ReconnectedOrGaveUp

\* The transport went down after the socket had opened; the 'close' handler
\* has armed the first reconnect timer.
ReconnectScheduled ==
    /\ everOpened
    /\ clientWs = "CLOSED"
    /\ reconnectTimer.pending
    /\ connectAttempts = 1

\* C25: the liveness sweep tolerates one missed heartbeat: a connection whose
\* HEARTBEAT envelope arrived in the interval before a sweep, and from which
\* nothing arrives in the one interval that follows, is not evicted by the
\* sweep that ends that silent interval.
OneMissedHeartbeatTolerated ==
    [][(last.op = "sweep" /\ last'.op = "sweep") =>
          last.beat \notin last'.evicted]_vars

\* C29: a HEARTBEAT envelope received from a connection raises that
\* connection's liveness flag and is answered with one HEARTBEAT echo carrying
\* a fresh timestamp, written to the sender only and only while the sender's
\* transport is open; it is never relayed to another connection.
HeartbeatEchoedToSenderOnly ==
    last.op = "heartbeat" =>
        /\ connectionInfo[last.ws].isAlive
        /\ last.message.type = "HEARTBEAT"
        /\ last.message.timestamp = ServerTime
        /\ last.sentTo = IF readyState[last.ws] = "OPEN" THEN {last.ws} ELSE {}

\* C29 as stated: every HEARTBEAT envelope received is answered with exactly
\* one echo to its sender.
HeartbeatAlwaysEchoed ==
    last.op = "heartbeat" => last.sentTo = {last.ws}

\* A HEARTBEAT envelope from an open member of a session that has another
\* open member was answered.
HeartbeatFromSharedSession ==
    /\ last.op = "heartbeat"
    /\ last.sentTo = {last.ws}
    /\ \E t \in OpenMembers(connectionInfo[last.ws].containerID) : t # last.ws

\* C26: a member of the target session whose transport is not OPEN or whose
\* write throws is out of the registry when broadcast returns, every other
\* member is written to exactly once and stays registered, and a session
\* left without members is deleted.
Writable(members, failing) ==
    {ws \in members : readyState[ws] = "OPEN" /\ ws \notin failing}

BroadcastRemovesOnlyDeadMembers ==
    [][last'.op = "broadcast" =>
          LET S == last'.message.containerID
              members == IF S \in DOMAIN connections THEN connections[S] ELSE {}
              writable == Writable(members, last'.failing)
          IN /\ \A ws \in members \ writable :
                    /\ ws \notin Members(connections')
                    /\ ws \notin DOMAIN connectionMetadata'
             /\ \A ws \in writable :
                    /\ Cardinality({i \in 1..Len(last'.written) :
                                        last'.written[i] = ws}) = 1
                    /\ ws \in connections'[S]
             /\ Len(last'.written) = Cardinality(writable)
             /\ writable = {} => S \notin DOMAIN connections']_vars

\* A broadcast wrote to a member of the session and removed another one whose
\* write threw.
BroadcastPastFailingMember ==
    /\ last.op = "broadcast"
    /\ last.failing # {}
    /\ Len(last.written) >= 1
    /\ last.failing \cap Members(connections) = {}

\* C38: a socket has a metadata entry naming session c if and only if it is a
\* member of the connection set of c.
MetadataMatchesMembership ==
    \A ws \in Sock, c \in ContainerIDs :
        (ws \in DOMAIN connectionMetadata /\ connectionMetadata[ws] = c)
            <=> (c \in DOMAIN connections /\ ws \in connections[c])

\* C34: every connection a liveness sweep evicts has its transport closed and
\* its connection record destroyed: after the sweep its socket is not OPEN and
\* connectionInfo holds nothing for it.
EvictedConnectionClosed ==
    [][last'.op = "sweep" =>
          \A ws \in last'.evicted :
              /\ readyState'[ws] # "OPEN"
              /\ ws \notin DOMAIN connectionInfo']_vars

\* C35: an envelope is written to the members of a session only if the
\* connection it arrived on was a member of the registry when it arrived.
BroadcastOnlyFromMembers ==
    [][(last'.op = "broadcast" /\ last'.sentTo # {}) =>
          last'.ws \in Members(connections)]_vars

\* C36: the promise of a connect() call settles: it is resolved by the time
\* the client is connected, also when a later automatic attempt made the
\* connection; it is rejected by the time 'failed' has been emitted; and once
\* the first attempt has failed it does not stay pending for ever.
Settled == promise \in {"resolved", "rejected"}

ConnectSettles ==
    /\ []((connected /\ clientWs = "OPEN" /\ promise # "none") => Settled)
    /\ [](failedEmitted >= 1 => promise # "abandoned")
    /\ (promise = "abandoned") ~> Settled

(***************************************************************************)
(* Supervisor: properties.                                                 *)
(***************************************************************************)

NotRunning(state) == state # "running"

\* C9: when run() returns, claudeProcess, catProcess and pipeProcess are no
\* longer running.
NothingRunsAtReturn ==
    result.returned =>
        /\ NotRunning(atReturn.claude)
        /\ NotRunning(atReturn.cat)
        /\ NotRunning(atReturn.pipe)

\* claudeProcess failed to spawn, or was killed by a signal.
EndedAbnormally ==
    \/ claude = "failed"
    \/ claude \in {"exited", "closed"} /\ claudeExit.signal # "none"

\* C10: a run whose process failed to spawn or was killed by a signal
\* returns success = false and a non-zero exit code, which is the timeout
\* sentinel only if the run timed out.
AbnormalEndReportedAsFailure ==
    (result.returned /\ EndedAbnormally) =>
        /\ ~result.success
        /\ result.exitCode # 0
        /\ result.exitCode = TimeoutExitCode => signals.timedOut

\* C17: kill() called while claudeProcess is running sends it a signal at
\* once, and the process is no longer running afterwards.
KillTerminatesRunningProcess ==
    [][(Kill /\ claude = "running") =>
          /\ signals'.byKill = signals.byKill + 1
          /\ claude' # "running"]_vars

NoTimerPendingAfterExit ==
    claude = "closed" => ~timeoutId /\ ~graceTimer.armed

\* What run() has recorded of the supervised process: nothing before the
\* spawn; running while the promise is pending; grace-terminating once the
\* timeout callback has resolved it and until the SIGKILL callback has run,
\* killed from then on; exited once the 'close' handler has resolved it;
\* failed when the 'error' handler or the catch block has.
processState ==
    IF pc = "preparing" THEN "none"
    ELSE IF ~resolved THEN (IF pc = "returned" THEN "failed" ELSE "running")
    ELSE IF exitCode = TimeoutExitCode
    THEN (IF signals.killSent THEN "killed" ELSE "grace-terminating")
    ELSE IF claude = "failed" THEN "failed" ELSE "exited"

Forward ==
    {<<"none", "running">>, <<"none", "failed">>, <<"running", "failed">>,
     <<"running", "exited">>, <<"running", "grace-terminating">>,
     <<"grace-terminating", "killed">>}

TransportErrorKeepsTaskRunning ==
    /\ [](agentEnd # "transportError")
    /\ [][AgentTransportError => agentPc' # "exited"]_vars

\* C39: a heartbeat generated while the client is not connected is not
\* discarded: the statistics timer's sendHeartbeat() appends it to the
\* message queue, which grows by one with every firing, and the next flush
\* transmits every heartbeat the queue holds.
NotConnected == ~(connected /\ clientWs = "OPEN")

HeartbeatQueuedWhileDisconnected ==
    /\ [][(StatsTimerFires /\ NotConnected)
            => /\ messageQueue' = Append(messageQueue, HeartbeatEnvelope)
               /\ wire' = wire]_vars
    /\ [][AgentOnOpen
            => \A i \in 1..Len(messageQueue) :
                 messageQueue[i] = HeartbeatEnvelope
                     => /\ Len(wire') >= Len(wire) + i
                        /\ wire'[Len(wire) + i] = HeartbeatEnvelope]_vars

QueuedHeartbeatFlushed ==
    /\ connected /\ clientWs = "OPEN"
    /\ \E i \in 1..Len(lastFlush.queue) : lastFlush.queue[i] = HeartbeatEnvelope
    /\ \E i \in 1..Len(lastFlush.written) : lastFlush.written[i] = HeartbeatEnvelope


(***************************************************************************)
(* Handshake: properties.                                                  *)
(***************************************************************************)
\* C33: when the client configured with session S is connected, its upgrade
\* request carried the token and S, and the hub has bound the connection
\* under S, the identifier the client stamps on its envelopes.
ConnectedUnderOwnSession ==
    linkPc = "connected" =>
        /\ upgradeUrl.token = AUTH_TOKEN
        /\ upgradeUrl.containerID = configuredID
        /\ boundAs = configuredID
        /\ \A i \in 1..Len(stamped) : stamped[i].containerID = boundAs

(***************************************************************************)
(* Standard output: properties.                                            *)
(***************************************************************************)
\* The newline-delimited lines of a text: an unterminated last line counts,
\* the empty text after a final newline does not.
Lines(text) ==
    LET parts == split(text)
    IN IF parts[Len(parts)] = <<>> THEN SubSeq(parts, 1, Len(parts) - 1)
       ELSE parts

\* The events the lines of a text give when each line is reported whole and
\* once: ClaudeCodeRunner passes over a blank line and pretty-prints a JSON
\* line, ProcessRunner passes over an empty line.
RECURSIVE Reported(_, _, _)
Reported(r, lines, index) ==
    IF index > Len(lines) THEN <<>>
    ELSE LET line == lines[index]
             event == IF r = "ClaudeCodeRunner"
                      THEN IF trim(line) = <<>> THEN <<>>
                           ELSE IF isJSON(line) THEN <<prettyJson(line)>>
                           ELSE <<line>>
                      ELSE IF line = <<>> THEN <<>> ELSE <<line>>
         IN event \o Reported(r, lines, index + 1)

IsPrefix(p, q) == Len(p) <= Len(q) /\ SubSeq(q, 1, Len(p)) = p

StreamOver ==
    /\ runner # "none"
    /\ readPos = Len(stdout)
    /\ runner = "ProcessRunner" => exited

\* C22: however stdout is split into chunks, the 'output' events are the
\* lines of the whole stream: at any moment they are the first of these
\* lines, each whole and once, and once the stream is over and the process
\* has exited they are all of them.
OutputIsTheLinesOfTheStream ==
    /\ IsPrefix(output, Reported(runner, Lines(stdout), 1))
    /\ StreamOver => output = Reported(runner, Lines(stdout), 1)

\* C23: when stdout is made of complete lines and each has given one
\* 'output' event, each has been handed to the client as one LOG envelope:
\* the lines handed over are the lines of the events.
EachLineLoggedOnce ==
    (/\ runner = "ClaudeCodeRunner"
     /\ StreamOver
     /\ stdout # <<>> /\ stdout[Len(stdout)] = Newline
     /\ output = Reported(runner, Lines(stdout), 1)) => logs = output

(***************************************************************************)
(* Agent: properties.                                                      *)
(***************************************************************************)

\* C11: when the task has ended abnormally (non-zero exit, timeout, crash,
\* failure to spawn, an exception of the agent, a shutdown signal) and the
\* agent has terminated, it has sent a STATUS(failed) envelope and a
\* COMPLETE envelope with a non-zero exit code.
AbnormalEndAnnounced ==
    (agentExit.exited /\ agentEnd \notin {"none", "success"}) =>
        /\ StatusEnvelope("failed") \in Range(agentSent)
        /\ \E e \in Range(agentSent) : e.type = "COMPLETE" /\ e.exitCode # 0

(***************************************************************************)
(* OutputParser: properties.                                               *)
(***************************************************************************)

\* C40: the parser numbers the lines consecutively: the k-th entry returned
\* over all the parse() and flush() calls carries lineNumber k, however the
\* text was cut into chunks.
LinesNumberedConsecutively ==
    \A k \in 1..Len(returned) : returned[k].lineNumber = k

====
